---- MODULE Spec2Model ----
(***************************************************************************)
(* expr-eval (src/src/main.rs): a character tokenizer feeding a            *)
(* precedence-climbing evaluator over i32.                                 *)
(*                                                                         *)
(* A source text is a sequence of one-character strings.  The tokenizer's  *)
(* Peekable<Chars> is a cursor `pos` (characters consumed so far); the     *)
(* Expr's Peekable<Tokenizer> is that cursor plus the one-token lookahead  *)
(* `peeked` (Option<Option<Token>>).                                       *)
(***************************************************************************)
EXTENDS Integers, Sequences, FiniteSets, TLC

VARIABLES
    src,              \* Expr::src, the source text
    pos,              \* characters the tokenizer has consumed
    peeked,           \* lookahead slot of Expr::iter
    overflow_checks,  \* build profile: TRUE panics on overflow, FALSE wraps
    result,           \* outcome of the last evaluation() call
    hist,             \* the last three operations applied to the Expr
    stack,            \* call stack of an evaluation() run step by step
    ret,              \* value returned by the call that last returned
    toks,             \* token sequence the source was printed from, if any
    arg_l, arg_op, arg_r  \* operands and operator the source was built from

vars == <<src, pos, peeked, overflow_checks, result, hist, stack, ret,
          toks, arg_l, arg_op, arg_r>>

\* What no operation of the program changes.
fixed == <<src, overflow_checks, toks, arg_l, arg_op, arg_r>>

(***************************************************************************)
(* i32                                                                     *)
(***************************************************************************)
I32_MAX == 2147483647
I32_MIN == -I32_MAX - 1

Abs(n) == IF n < 0 THEN -n ELSE n

\* a + b as an i32 wrapping add (two's complement), for a, b in i32.
WrappingAdd(a, b) ==
    IF b > 0 /\ a > I32_MAX - b THEN (a + I32_MIN) + (b + I32_MIN)
    ELSE IF b < 0 /\ a < I32_MIN - b THEN (a - I32_MIN) + (b - I32_MIN)
    ELSE a + b

AddOverflows(a, b) == (b > 0 /\ a > I32_MAX - b) \/ (b < 0 /\ a < I32_MIN - b)

SubOverflows(a, b) == (b < 0 /\ a > I32_MAX + b) \/ (b > 0 /\ a < I32_MIN + b)

WrappingSub(a, b) ==
    IF b = I32_MIN THEN WrappingAdd(WrappingAdd(a, I32_MAX), 1)
    ELSE WrappingAdd(a, -b)

\* Whether the exact product a * b lies outside i32.
MulOverflows(a, b) ==
    IF a = 0 \/ b = 0 THEN FALSE
    ELSE IF a = I32_MIN THEN b # 1
    ELSE IF b = I32_MIN THEN a # 1
    ELSE IF (a > 0) = (b > 0) THEN Abs(a) > I32_MAX \div Abs(b)
    ELSE IF Abs(b) = 1 THEN FALSE
    ELSE Abs(a) > (I32_MAX \div Abs(b)) + (IF (I32_MAX % Abs(b)) + 1 = Abs(b) THEN 1 ELSE 0)

I32_BITS == 32

\* a * b modulo 2^32 from the 16-bit halves of a and b (a = ah * 2^16 + al,
\* al in 0..65535), every partial product kept inside TLC's integers;
\* the result is read back as a two's-complement i32.
WrappingMul(a, b) ==
    LET al == a % 65536
        ah == a \div 65536
        bl == b % 65536
        bh == b \div 65536
        bl0 == bl % 256
        bl1 == bl \div 256
        x == al * bl0
        y == al * bl1
        low == x + (y % 256) * 256
        lo == low % 65536
        carry == (low \div 65536) + (y \div 256)
        hi == (((ah * bl) % 65536) + ((al * bh) % 65536) + carry) % 65536
    IN  IF hi >= 32768 THEN (hi - 65536) * 65536 + lo ELSE hi * 65536 + lo

\* Rust's integer division: truncation toward zero (r # 0, not MIN / -1).
TruncDivSmall(l, r) ==
    IF (l >= 0) = (r > 0) THEN Abs(l) \div Abs(r) ELSE -(Abs(l) \div Abs(r))

\* Faulty variant: division rounded toward minus infinity.
FloorDiv(l, r) == l \div r

TruncDiv(l, r) ==
    IF r = I32_MIN THEN (IF l = I32_MIN THEN 1 ELSE 0)
    ELSE IF l = I32_MIN
         THEN (IF r > 0 THEN TruncDivSmall(l + r, r) - 1 ELSE TruncDivSmall(l - r, r) + 1)
    ELSE TruncDivSmall(l, r)

(***************************************************************************)
(* Token                                                                   *)
(***************************************************************************)
Number(n) == [kind |-> "Number", val |-> n]
Op(k) == [kind |-> k, val |-> 0]
Plus == Op("Plus")
Minus == Op("Minus")
Mutiply == Op("Mutiply")
Divide == Op("Divide")
Power == Op("Power")
LeftParen == Op("LeftParen")
RightParen == Op("RightParen")

\* Option<Token>::None, and the empty lookahead slot of a Peekable.
None == Op("None")
NoPeek == Op("NoPeek")

ASSOC_LEFT == 0
ASSOC_RIGHT == 1

is_operator(t) ==
    t.kind \in {"Plus", "Minus", "Mutiply", "Divide", "Power", "LeftParen", "RightParen"}

\* Faulty variant: the fallback precedence is 1, so parentheses reach the operator loop.
precedence_default_one(t) ==
    CASE t.kind \in {"Plus", "Minus"} -> 1
      [] t.kind \in {"Divide", "Mutiply"} -> 2
      [] t.kind = "Power" -> 3
      [] OTHER -> 1

precedence(t) ==
    CASE t.kind \in {"Plus", "Minus"} -> 1
      [] t.kind \in {"Divide", "Mutiply"} -> 2
      [] t.kind = "Power" -> 3
      [] OTHER -> 0

\* Faulty variant: every operator grouped to the left.
assoc_all_left(t) == ASSOC_LEFT

assoc(t) == IF t.kind = "Power" THEN ASSOC_RIGHT ELSE ASSOC_LEFT

\* Outcome of one arithmetic step: a value, or the panic the build raises.
Some(v) == [kind |-> "Some", val |-> v]
NoValue == [kind |-> "None", val |-> 0]
ArithPanic == [kind |-> "Panic", val |-> 0]

\* l + r, l - r, l * r on i32: with overflow checks (debug profile) an overflow
\* panics, without them (release profile) it wraps.
AddI32(l, r, chk) ==
    IF AddOverflows(l, r) THEN (IF chk THEN ArithPanic ELSE Some(WrappingAdd(l, r)))
    ELSE Some(l + r)

SubI32(l, r, chk) ==
    IF SubOverflows(l, r) THEN (IF chk THEN ArithPanic ELSE Some(WrappingSub(l, r)))
    ELSE Some(l - r)

MulI32(l, r, chk) ==
    IF MulOverflows(l, r) THEN (IF chk THEN ArithPanic ELSE Some(WrappingMul(l, r)))
    ELSE Some(l * r)

\* l / r on i32: division by zero and MIN / -1 panic under every profile.
DivI32(l, r) ==
    IF r = 0 \/ (l = I32_MIN /\ r = -1) THEN ArithPanic ELSE Some(TruncDiv(l, r))

\* i32::pow(base, exp) by squaring.  exp is the u32 `r as u32`, kept as the
\* signed r with the number n of bits not yet shifted out: its low bit is
\* e % 2, its halving e \div 2, and it equals 1 when e = 1, or e = -1 with one
\* bit left.
RECURSIVE PowLoop(_, _, _, _, _)
PowLoop(acc, base, e, n, chk) ==
    LET odd == e % 2 = 1
        acc1 == IF odd THEN MulI32(acc, base, chk) ELSE Some(acc)
        last == e = 1 \/ (e = -1 /\ n = 1)
    IN  IF acc1.kind = "Panic" THEN ArithPanic
        ELSE IF odd /\ last THEN acc1
        ELSE LET sq == MulI32(base, base, chk)
             IN  IF sq.kind = "Panic" THEN ArithPanic
                 ELSE PowLoop(acc1.val, sq.val, e \div 2, n - 1, chk)

PowI32(l, r, chk) == IF r = 0 THEN Some(1) ELSE PowLoop(1, l, r, I32_BITS, chk)

compute(t, l, r, chk) ==
    CASE t.kind = "Plus" -> AddI32(l, r, chk)
      [] t.kind = "Minus" -> SubI32(l, r, chk)
      [] t.kind = "Mutiply" -> MulI32(l, r, chk)
      [] t.kind = "Divide" -> DivI32(l, r)
      [] t.kind = "Power" -> PowI32(l, r, chk)
      [] OTHER -> NoValue

(***************************************************************************)
(* Tokenizer                                                               *)
(***************************************************************************)
AsciiDigits == <<"0", "1", "2", "3", "4", "5", "6", "7", "8", "9">>

IsAsciiDigit(c) == \E i \in 1..10 : AsciiDigits[i] = c

DigitVal(c) == (CHOOSE i \in 1..10 : AsciiDigits[i] = c) - 1

\* char::is_whitespace and char::is_numeric; "N" stands for a numeric
\* character that is no ASCII digit (such as a superscript two).
IsWhitespace(c) == c \in {" ", "\t"}

IsNumeric(c) == IsAsciiDigit(c) \/ c = "N"

\* Faulty variant: at most one whitespace character is skipped.
consume_one_whitespace(s, p) ==
    IF p < Len(s) /\ IsWhitespace(s[p + 1]) THEN p + 1 ELSE p

RECURSIVE consume_whitespaces(_, _)
consume_whitespaces(s, p) ==
    IF p < Len(s) /\ IsWhitespace(s[p + 1]) THEN consume_whitespaces(s, p + 1) ELSE p

\* The cursor after the run of numeric characters that starts at p.
RECURSIVE NumericRun(_, _)
NumericRun(s, p) ==
    IF p < Len(s) /\ IsNumeric(s[p + 1]) THEN NumericRun(s, p + 1) ELSE p

\* str::parse::<i32> of the characters s[a+1..b]: fails on the empty string,
\* on a character that is no ASCII digit, and on a value above i32::MAX.
RECURSIVE ParseFrom(_, _, _, _)
ParseFrom(s, a, b, acc) ==
    IF a = b THEN [ok |-> TRUE, val |-> acc]
    ELSE IF ~IsAsciiDigit(s[a + 1]) THEN [ok |-> FALSE, val |-> 0]
    ELSE LET d == DigitVal(s[a + 1])
         IN  IF acc > (I32_MAX - d) \div 10 THEN [ok |-> FALSE, val |-> 0]
             ELSE ParseFrom(s, a + 1, b, acc * 10 + d)

ParseI32(s, a, b) == IF a = b THEN [ok |-> FALSE, val |-> 0] ELSE ParseFrom(s, a, b, 0)

scan_numbers(s, p) ==
    LET e == NumericRun(s, p)
        n == ParseI32(s, p, e)
    IN  [tok |-> IF n.ok THEN Number(n.val) ELSE None, pos |-> e]

scan_operator(s, p) ==
    IF p >= Len(s) THEN [tok |-> None, pos |-> p]
    ELSE LET c == s[p + 1]
         IN  [tok |-> CASE c = "+" -> Plus
                        [] c = "-" -> Minus
                        [] c = "*" -> Mutiply
                        [] c = "/" -> Divide
                        [] c = "^" -> Power
                        [] c = "(" -> LeftParen
                        [] c = ")" -> RightParen
                        [] OTHER -> None,
              pos |-> p + 1]

\* Iterator::next for Tokenizer.
TokenizerNext(s, p) ==
    LET q == consume_whitespaces(s, p)
    IN  IF q >= Len(s) THEN [tok |-> None, pos |-> q]
        ELSE IF IsNumeric(s[q + 1]) THEN scan_numbers(s, q)
        ELSE scan_operator(s, q)

(***************************************************************************)
(* Peekable<Tokenizer>: it = [pos, peeked]                                 *)
(***************************************************************************)
Iter(p, pk) == [pos |-> p, peeked |-> pk]

\* Peekable::peek: fills the lookahead slot from the tokenizer when it is
\* empty (a None is kept in the slot too) and returns the slot.
Peek(s, it) ==
    IF it.peeked = NoPeek
    THEN LET n == TokenizerNext(s, it.pos)
         IN  [tok |-> n.tok, it |-> Iter(n.pos, n.tok)]
    ELSE [tok |-> it.peeked, it |-> it]

\* Peekable::next: takes the lookahead slot when it is filled, else asks the
\* tokenizer.
PeekableNext(s, it) ==
    IF it.peeked # NoPeek
    THEN [tok |-> it.peeked, it |-> Iter(it.pos, NoPeek)]
    ELSE LET n == TokenizerNext(s, it.pos)
         IN  [tok |-> n.tok, it |-> Iter(n.pos, NoPeek)]

(***************************************************************************)
(* Expr                                                                    *)
(***************************************************************************)
Ok(v) == [kind |-> "Ok", val |-> v, msg |-> ""]
Err(m) == [kind |-> "Err", val |-> 0, msg |-> m]
Panic(m) == [kind |-> "Panic", val |-> 0, msg |-> m]
NoResult == [kind |-> "NoResult", val |-> 0, msg |-> ""]

\* The mutually recursive productions.  The value of each recursive call is
\* handed to an operator of its own (fold, loop_from, expect_close,
\* expect_end) that holds the code following the call.
RECURSIVE compute_expression(_, _, _, _)
RECURSIVE compute_atom(_, _, _)
RECURSIVE expression_loop(_, _, _, _, _)

\* After `let atom_r = self.compute_expression(next_prec)?`: fold the two
\* operands through the operator and go round the loop again.
fold(s, token, atom_l, atom_r, min_prec, chk) ==
    IF atom_r.res.kind # "Ok" THEN atom_r
    ELSE LET re == compute(token, atom_l, atom_r.res.val, chk)
         IN  CASE re.kind = "Some" -> expression_loop(s, atom_r.it, re.val, min_prec, chk)
               [] re.kind = "None" -> [res |-> Err("Unknown expression"), it |-> atom_r.it]
               [] OTHER -> [res |-> Panic("arithmetic"), it |-> atom_r.it]

\* One pass of the `loop` of compute_expression, atom_l accumulated so far.
expression_loop(s, it, atom_l, min_prec, chk) ==
    LET cur == Peek(s, it)
        token == cur.tok
        next_prec == IF assoc(token) = ASSOC_LEFT
                     THEN precedence(token) + 1
                     ELSE precedence(token)
    IN  IF token = None THEN [res |-> Ok(atom_l), it |-> cur.it]
        ELSE IF ~is_operator(token) \/ precedence(token) < min_prec
        THEN [res |-> Ok(atom_l), it |-> cur.it]
        ELSE fold(s, token, atom_l,
                  compute_expression(s, PeekableNext(s, cur.it).it, next_prec, chk),
                  min_prec, chk)

\* After `let mut atom_l = self.compute_atom()?`: enter the loop.
loop_from(s, a, min_prec, chk) ==
    IF a.res.kind # "Ok" THEN a
    ELSE expression_loop(s, a.it, a.res.val, min_prec, chk)

compute_expression(s, it, min_prec, chk) ==
    loop_from(s, compute_atom(s, it, chk), min_prec, chk)

\* Faulty variant: the closing parenthesis is looked at but not consumed.
expect_close_keeps_paren(s, inner) ==
    IF inner.res.kind # "Ok" THEN inner
    ELSE LET close == Peek(s, inner.it)
         IN  IF close.tok = RightParen
             THEN [res |-> inner.res, it |-> close.it]
             ELSE [res |-> Err("Unexpected character"), it |-> close.it]

\* After `let result = self.compute_expression(1)?` in compute_atom: the next
\* token must be a RightParen.
expect_close(s, inner) ==
    IF inner.res.kind # "Ok" THEN inner
    ELSE LET close == PeekableNext(s, inner.it)
         IN  IF close.tok = RightParen
             THEN [res |-> inner.res, it |-> close.it]
             ELSE [res |-> Err("Unexpected character"), it |-> close.it]

compute_atom(s, it, chk) ==
    LET cur == Peek(s, it)
    IN  CASE cur.tok.kind = "Number" ->
               [res |-> Ok(cur.tok.val), it |-> PeekableNext(s, cur.it).it]
          [] cur.tok.kind = "LeftParen" ->
               expect_close(s, compute_expression(s, PeekableNext(s, cur.it).it, 1, chk))
          [] OTHER ->
               [res |-> Err("Expecting a number or left paren"), it |-> cur.it]

\* Faulty variant: tokens left after the expression are accepted.
expect_end_lenient(s, e) == e

\* After `let result = self.compute_expression(1)?` in evaluation: no token
\* may be left.
expect_end(s, e) ==
    IF e.res.kind # "Ok" THEN e
    ELSE LET rest == Peek(s, e.it)
         IN  IF rest.tok # None
             THEN [res |-> Err("Unexpected end of expr"), it |-> rest.it]
             ELSE [res |-> e.res, it |-> rest.it]

evaluation(s, it, chk) == expect_end(s, compute_expression(s, it, 1, chk))

\* Expr::new and Expr::reset: a fresh tokenizer over src, nothing peeked.
new == Iter(0, NoPeek)

\* Faulty variant: the lookahead is dropped but the tokenizer is not rewound.
reset_no_rewind(it) == Iter(it.pos, NoPeek)

reset(it) == Iter(0, NoPeek)

\* evaluation() on a freshly constructed Expr for s.
Eval(s, chk) == evaluation(s, new, chk).res

(***************************************************************************)
(* Display for Token: the text main prints for each token                  *)
(***************************************************************************)
RECURSIVE to_string(_)
to_string(n) ==
    IF n < 0 THEN <<"-">> \o to_string(-n)
    ELSE IF n < 10 THEN <<AsciiDigits[n + 1]>>
    ELSE to_string(n \div 10) \o <<AsciiDigits[(n % 10) + 1]>>

Display(t) ==
    CASE t.kind = "Number" -> to_string(t.val)
      [] t.kind = "Plus" -> <<"+">>
      [] t.kind = "Minus" -> <<"-">>
      [] t.kind = "Mutiply" -> <<"*">>
      [] t.kind = "Divide" -> <<"/">>
      [] t.kind = "Power" -> <<"^">>
      [] t.kind = "LeftParen" -> <<"(">>
      [] t.kind = "RightParen" -> <<")">>

\* The tokens printed one after the other as main prints them, with one space
\* where two numbers would otherwise run together.
RECURSIVE PrintTokens(_)
PrintTokens(ts) ==
    IF ts = <<>> THEN <<>>
    ELSE IF Len(ts) = 1 THEN Display(ts[1])
    ELSE Display(ts[1])
         \o (IF ts[1].kind = "Number" /\ ts[2].kind = "Number" THEN <<" ">> ELSE <<>>)
         \o PrintTokens(Tail(ts))

(***************************************************************************)
(* Inputs                                                                  *)
(***************************************************************************)
MaxSrcLen == 3
MaxTextLen == 4
MaxTok == 5
MaxOperand == 8

RECURSIVE SeqsUpTo(_, _)
SeqsUpTo(S, n) ==
    IF n = 0 THEN {<<>>}
    ELSE LET shorter == SeqsUpTo(S, n - 1)
         IN  shorter \cup {Append(q, c) : q \in {x \in shorter : Len(x) = n - 1}, c \in S}

Alphabet == {" ", "1", "2", "+", "*", "(", ")", "a", "N"}

TokenAlphabet ==
    {Number(0), Number(2), Number(3),
     Plus, Minus, Mutiply, Divide, Power, LeftParen, RightParen}

\* Source texts named in the documentation and in main.
ExPrecedence == <<"2", " ", "+", " ", "3", " ", "*", " ", "4">>

ExParens == <<"(", "2", " ", "+", " ", "3", ")", " ", "*", " ", "4">>

ExLeftAssoc == <<"8", " ", "-", " ", "4", " ", "-", " ", "2">>

ExRightAssoc == <<"2", " ", "^", " ", "3", " ", "^", " ", "2">>

ExMain == <<"8", "3", " ", "-", " ", "5", " ", "+", " ", "3", " ", "*", " ", "1", "0", " ", "+", " ", "(", "8", "3", " ", "-", " ", "7", "3", ")", " ", "/", " ", "5", " ", "+", " ", "3", "5">>

ExEmptyParens == <<"(", ")">>

ExNoRightOperand == <<"1", " ", "+">>

ExNoClose == <<"(", "1", " ", "+", " ", "2">>

ExAdjacent == <<"1", " ", "2">>

ExStrayClose == <<"1", " ", "+", " ", "2", ")">>

ExLeadingMinus == <<"-", "5">>

ExTight == <<"1", "+", "2">>

ExSpaced == <<" ", "1", " ", "+", " ", "2", " ">>

ExForeignTail == <<"1", " ", "+", " ", "2", " ", "a">>

ExForeignMiddle == <<"1", " ", "a", " ", "+", " ", "2">>

ExForeignHead == <<"a", " ", "1", " ", "+", " ", "2">>

ExForeignInParens == <<"(", "1", " ", "a", ")">>

ExTooBig == <<"2", "1", "4", "7", "4", "8", "3", "6", "4", "8">>

ExBiggest == <<"2", "1", "4", "7", "4", "8", "3", "6", "4", "7">>

WellFormedExamples == {ExPrecedence, ExParens, ExLeftAssoc, ExRightAssoc, ExMain}

MalformedExamples ==
    {ExEmptyParens, ExNoRightOperand, ExNoClose, ExAdjacent, ExStrayClose, ExLeadingMinus}

ForeignExamples == {ExForeignTail, ExForeignMiddle, ExForeignHead, ExForeignInParens}

TextExamples ==
    WellFormedExamples \cup MalformedExamples \cup ForeignExamples
        \cup {ExTight, ExSpaced, ExTooBig, ExBiggest}

Operands ==
    {I32_MIN, I32_MIN + 1, I32_MAX - 1, I32_MAX} \cup {n \in -MaxOperand .. MaxOperand : TRUE}

\* An operand as source text: a negative value n can only be written as a
\* subtraction from zero, and i32::MIN as (0 - 2147483647 - 1).
OperandText(n) ==
    IF n >= 0 THEN to_string(n)
    ELSE IF n = I32_MIN THEN <<"(", "0", " ", "-", " ">> \o to_string(I32_MAX)
                             \o <<" ", "-", " ", "1", ")">>
    ELSE <<"(", "0", " ", "-", " ">> \o to_string(-n) \o <<")">>

BinaryText(l, op, r) == OperandText(l) \o <<" ", op, " ">> \o OperandText(r)

(***************************************************************************)
(* The Expr as a state machine                                             *)
(***************************************************************************)
Fresh ==
    /\ pos = 0
    /\ peeked = NoPeek
    /\ result = NoResult
    /\ hist = <<>>
    /\ stack = <<>>
    /\ ret = NoResult

InitExpr ==
    /\ src \in SeqsUpTo(Alphabet, MaxSrcLen) \cup {ExMain, ExAdjacent, ExForeignTail}
    /\ overflow_checks \in BOOLEAN
    /\ Fresh
    /\ toks = <<>> /\ arg_l = 0 /\ arg_op = "" /\ arg_r = 0

InitText ==
    /\ src \in SeqsUpTo(Alphabet, MaxTextLen) \cup TextExamples
    /\ overflow_checks \in BOOLEAN
    /\ Fresh
    /\ toks = <<>> /\ arg_l = 0 /\ arg_op = "" /\ arg_r = 0

InitTok ==
    /\ \/ /\ toks \in SeqsUpTo(TokenAlphabet, MaxTok)
          /\ src = PrintTokens(toks)
       \/ /\ toks = <<>>
          /\ src \in WellFormedExamples \cup MalformedExamples
    /\ overflow_checks \in BOOLEAN
    /\ Fresh
    /\ arg_l = 0 /\ arg_op = "" /\ arg_r = 0

InitBinary ==
    /\ arg_l \in Operands
    /\ arg_r \in Operands
    /\ arg_op \in {"+", "-", "*", "/", "^"}
    /\ src = BinaryText(arg_l, arg_op, arg_r)
    /\ overflow_checks \in BOOLEAN
    /\ Fresh
    /\ toks = <<>>

\* A panic ends the program: nothing runs after it.
Alive == result.kind # "Panic"

Push(h, op) == IF Len(h) < 3 THEN Append(h, op) ELSE <<h[2], h[3], op>>

\* expr.iter.next(), as main's printing loop calls it.
IterNext ==
    /\ Alive
    /\ LET n == PeekableNext(src, Iter(pos, peeked))
       IN  /\ pos' = n.it.pos
           /\ peeked' = n.it.peeked
    /\ hist' = Push(hist, "next")
    /\ UNCHANGED <<fixed, result, stack, ret>>

\* expr.reset()
Reset ==
    /\ Alive
    /\ LET it == reset(Iter(pos, peeked))
       IN  /\ pos' = it.pos
           /\ peeked' = it.peeked
    /\ hist' = Push(hist, "reset")
    /\ UNCHANGED <<fixed, result, stack, ret>>

\* expr.evaluation()
Evaluation ==
    /\ Alive
    /\ LET e == evaluation(src, Iter(pos, peeked), overflow_checks)
       IN  /\ pos' = e.it.pos
           /\ peeked' = e.it.peeked
           /\ result' = e.res
    /\ hist' = Push(hist, "evaluation")
    /\ UNCHANGED <<fixed, stack, ret>>

\* evaluation() as the first call on a newly constructed Expr.
FirstEvaluation ==
    /\ hist = <<>>
    /\ Evaluation

Next == IterNext \/ Reset \/ Evaluation

Spec == InitExpr /\ [][Next]_vars

SpecText == InitText /\ [][FirstEvaluation]_vars

SpecTok == InitTok /\ [][FirstEvaluation]_vars

SpecBinary == InitBinary /\ [][FirstEvaluation]_vars

\* The first evaluation() of the Expr has returned (or panicked).
Evaluated == hist = <<"evaluation">>

(***************************************************************************)
(* evaluation() step by step: one frame per active call of evaluation,     *)
(* compute_expression or compute_atom, one action per piece of code        *)
(* between two calls or returns.                                           *)
(***************************************************************************)
MaxStepLen == 4

StepAlphabet == {" ", "2", "+", "*", "^", "(", ")", "a"}

\* Input still to be consumed: the characters behind the cursor, and the
\* token waiting in the lookahead slot.
Remaining(p, pk) ==
    (Len(src) - p) + (Len(src) - p) + (IF pk.kind \in {"NoPeek", "None"} THEN 0 ELSE 1)

\* A frame: the function, the place reached in it, its min_prec, atom_l and
\* token, the input remaining when it was called (rem0) and when its loop
\* last started a pass (mark, -1 before the first pass).
Frame(fn, pc, min_prec) ==
    [fn |-> fn, pc |-> pc, min_prec |-> min_prec, atom_l |-> 0, token |-> None,
     rem0 |-> Remaining(pos, peeked), mark |-> -1]

Top == stack[Len(stack)]

At(fn, pc) == stack # <<>> /\ Top.fn = fn /\ Top.pc = pc

Below == SubSeq(stack, 1, Len(stack) - 1)

\* The top frame replaced by f.
Replace(f) == Append(Below, f)

InitStep ==
    /\ src \in SeqsUpTo(StepAlphabet, MaxStepLen) \cup {ExMain, ExRightAssoc, ExNoClose}
    /\ overflow_checks \in BOOLEAN
    /\ Fresh
    /\ toks = <<>> /\ arg_l = 0 /\ arg_op = "" /\ arg_r = 0

\* evaluation() is called: `self.compute_expression(1)`.
EvalCall ==
    /\ stack = <<>>
    /\ hist = <<>>
    /\ stack' = <<Frame("evaluation", "after_expr", 0),
                  Frame("compute_expression", "call_atom", 1)>>
    /\ UNCHANGED <<fixed, pos, peeked, result, hist, ret>>

\* compute_expression: `self.compute_atom()`.
ExprCallAtom ==
    /\ At("compute_expression", "call_atom")
    /\ stack' = Append(Replace([Top EXCEPT !.pc = "after_atom"]),
                       Frame("compute_atom", "match", 0))
    /\ UNCHANGED <<fixed, pos, peeked, result, hist, ret>>

\* compute_atom: the next token is a number.
AtomNumber ==
    /\ At("compute_atom", "match")
    /\ LET cur == Peek(src, Iter(pos, peeked))
           adv == PeekableNext(src, cur.it)
       IN  /\ cur.tok.kind = "Number"
           /\ pos' = adv.it.pos
           /\ peeked' = adv.it.peeked
           /\ ret' = Ok(cur.tok.val)
    /\ stack' = Below
    /\ UNCHANGED <<fixed, result, hist>>

\* Faulty variant: the left parenthesis is not consumed before the recursive call.
AtomLeftParen_NotConsumed ==
    /\ At("compute_atom", "match")
    /\ LET cur == Peek(src, Iter(pos, peeked))
       IN  /\ cur.tok.kind = "LeftParen"
           /\ pos' = cur.it.pos
           /\ peeked' = cur.it.peeked
           /\ stack' = Append(Replace([Top EXCEPT !.pc = "after_inner"]),
                              [Frame("compute_expression", "call_atom", 1)
                                  EXCEPT !.rem0 = Remaining(cur.it.pos, cur.it.peeked)])
    /\ UNCHANGED <<fixed, result, hist, ret>>

\* compute_atom: the next token is a left parenthesis;
\* `self.compute_expression(1)`.
AtomLeftParen ==
    /\ At("compute_atom", "match")
    /\ LET cur == Peek(src, Iter(pos, peeked))
           adv == PeekableNext(src, cur.it)
       IN  /\ cur.tok.kind = "LeftParen"
           /\ pos' = adv.it.pos
           /\ peeked' = adv.it.peeked
           /\ stack' = Append(Replace([Top EXCEPT !.pc = "after_inner"]),
                              [Frame("compute_expression", "call_atom", 1)
                                  EXCEPT !.rem0 = Remaining(adv.it.pos, adv.it.peeked)])
    /\ UNCHANGED <<fixed, result, hist, ret>>

\* compute_atom: any other token, or none.
AtomOther ==
    /\ At("compute_atom", "match")
    /\ LET cur == Peek(src, Iter(pos, peeked))
       IN  /\ cur.tok.kind \notin {"Number", "LeftParen"}
           /\ pos' = cur.it.pos
           /\ peeked' = cur.it.peeked
    /\ ret' = Err("Expecting a number or left paren")
    /\ stack' = Below
    /\ UNCHANGED <<fixed, result, hist>>

\* compute_atom after the parenthesized expression: `?`, then the closing
\* parenthesis is required.
AtomClose ==
    /\ At("compute_atom", "after_inner")
    /\ IF ret.kind # "Ok"
       THEN UNCHANGED <<pos, peeked, ret>>
       ELSE LET close == PeekableNext(src, Iter(pos, peeked))
            IN  /\ pos' = close.it.pos
                /\ peeked' = close.it.peeked
                /\ ret' = IF close.tok = RightParen THEN ret
                          ELSE Err("Unexpected character")
    /\ stack' = Below
    /\ UNCHANGED <<fixed, result, hist>>

\* compute_expression after compute_atom: `?`, then `atom_l` is set.
ExprAfterAtom ==
    /\ At("compute_expression", "after_atom")
    /\ stack' = IF ret.kind # "Ok" THEN Below
                ELSE Replace([Top EXCEPT !.pc = "loop", !.atom_l = ret.val])
    /\ UNCHANGED <<fixed, pos, peeked, result, hist, ret>>

\* The operator the loop of compute_expression goes on with, if any.
Eligible(token, min_prec) ==
    /\ token # None
    /\ is_operator(token)
    /\ precedence(token) >= min_prec

\* compute_expression: the loop breaks and atom_l is returned.
ExprLoopBreak ==
    /\ At("compute_expression", "loop")
    /\ LET cur == Peek(src, Iter(pos, peeked))
       IN  /\ ~Eligible(cur.tok, Top.min_prec)
           /\ pos' = cur.it.pos
           /\ peeked' = cur.it.peeked
    /\ ret' = Ok(Top.atom_l)
    /\ stack' = Below
    /\ UNCHANGED <<fixed, result, hist>>

\* compute_expression: the loop takes an operator;
\* `self.iter.next(); self.compute_expression(next_prec)`.
ExprLoopOperator ==
    /\ At("compute_expression", "loop")
    /\ LET cur == Peek(src, Iter(pos, peeked))
           token == cur.tok
           next_prec == IF assoc(token) = ASSOC_LEFT
                        THEN precedence(token) + 1
                        ELSE precedence(token)
           adv == PeekableNext(src, cur.it)
       IN  /\ Eligible(token, Top.min_prec)
           /\ pos' = adv.it.pos
           /\ peeked' = adv.it.peeked
           /\ stack' = Append(Replace([Top EXCEPT !.pc = "after_rhs", !.token = token,
                                                  !.mark = Remaining(pos, peeked)]),
                              [Frame("compute_expression", "call_atom", next_prec)
                                  EXCEPT !.rem0 = Remaining(adv.it.pos, adv.it.peeked)])
    /\ UNCHANGED <<fixed, result, hist, ret>>

\* compute_expression after the right operand: `?`, then
\* `token.compute(atom_l, atom_r)`; a panic ends the program.
ExprFold ==
    /\ At("compute_expression", "after_rhs")
    /\ IF ret.kind # "Ok"
       THEN /\ stack' = Below
            /\ UNCHANGED <<ret, result, hist>>
       ELSE LET re == compute(Top.token, Top.atom_l, ret.val, overflow_checks)
            IN  CASE re.kind = "Some" ->
                       /\ stack' = Replace([Top EXCEPT !.pc = "loop", !.atom_l = re.val])
                       /\ UNCHANGED <<ret, result, hist>>
                  [] re.kind = "None" ->
                       /\ stack' = Below
                       /\ ret' = Err("Unknown expression")
                       /\ UNCHANGED <<result, hist>>
                  [] OTHER ->
                       /\ stack' = <<>>
                       /\ ret' = Panic("arithmetic")
                       /\ result' = Panic("arithmetic")
                       /\ hist' = <<"evaluation">>
    /\ UNCHANGED <<fixed, pos, peeked>>

\* evaluation after compute_expression: `?`, then no token may be left.
EvalReturn ==
    /\ At("evaluation", "after_expr")
    /\ IF ret.kind # "Ok"
       THEN /\ result' = ret
            /\ UNCHANGED <<pos, peeked>>
       ELSE LET rest == Peek(src, Iter(pos, peeked))
            IN  /\ pos' = rest.it.pos
                /\ peeked' = rest.it.peeked
                /\ result' = IF rest.tok # None THEN Err("Unexpected end of expr")
                             ELSE ret
    /\ stack' = <<>>
    /\ hist' = <<"evaluation">>
    /\ UNCHANGED <<fixed, ret>>

Step ==
    \/ EvalCall
    \/ ExprCallAtom
    \/ AtomNumber
    \/ AtomLeftParen
    \/ AtomOther
    \/ AtomClose
    \/ ExprAfterAtom
    \/ ExprLoopBreak
    \/ ExprLoopOperator
    \/ ExprFold
    \/ EvalReturn

SpecStep == InitStep /\ [][Step]_vars

MaxHaltLen == 3

InitHalt ==
    /\ src \in SeqsUpTo(StepAlphabet, MaxHaltLen) \cup {ExMain, ExRightAssoc, ExNoClose}
    /\ overflow_checks \in BOOLEAN
    /\ Fresh
    /\ toks = <<>> /\ arg_l = 0 /\ arg_op = "" /\ arg_r = 0

\* The program is sequential: a call that can take a step takes it.
SpecHalt == InitHalt /\ [][Step]_vars /\ WF_vars(Step)

\* The stepwise run returns what evaluation() returns, and leaves the Expr as
\* evaluation() leaves it.
StepMatchesEvaluation ==
    Evaluated =>
        LET e == evaluation(src, new, overflow_checks)
        IN  /\ result = e.res
            /\ result.kind # "Panic" => (pos = e.it.pos /\ peeked = e.it.peeked)

(***************************************************************************)
(* The reference reading of a token sequence: one grammar level per        *)
(* precedence (sum, product, power, atom), + - * / grouped to the left,    *)
(* ^ to the right, evaluated in exact integers.  `ok` says the sequence is *)
(* derivable from the grammar, `fault` that an operation met so far        *)
(* divides by zero, has a negative exponent or leaves i32; `spans` are the *)
(* token intervals <<first, last>> of the sub-expressions.                 *)
(***************************************************************************)
Reject(fault) == [ok |-> FALSE, fault |-> fault, val |-> 0, from |-> 0, next |-> 0, spans |-> {}]

RECURSIVE ExactPow(_, _)
ExactPow(l, r) ==
    IF r < 0 THEN [fault |-> TRUE, val |-> 0]
    ELSE IF r = 0 THEN [fault |-> FALSE, val |-> 1]
    ELSE IF l \in {0, 1} THEN [fault |-> FALSE, val |-> l]
    ELSE IF l = -1 THEN [fault |-> FALSE, val |-> IF r % 2 = 0 THEN 1 ELSE -1]
    ELSE IF r > I32_BITS THEN [fault |-> TRUE, val |-> 0]
    ELSE LET rest == ExactPow(l, r - 1)
         IN  IF rest.fault \/ MulOverflows(l, rest.val) THEN [fault |-> TRUE, val |-> 0]
             ELSE [fault |-> FALSE, val |-> l * rest.val]

ExactApply(op, l, r) ==
    CASE op.kind = "Plus" ->
           IF AddOverflows(l, r) THEN [fault |-> TRUE, val |-> 0]
           ELSE [fault |-> FALSE, val |-> l + r]
      [] op.kind = "Minus" ->
           IF SubOverflows(l, r) THEN [fault |-> TRUE, val |-> 0]
           ELSE [fault |-> FALSE, val |-> l - r]
      [] op.kind = "Mutiply" ->
           IF MulOverflows(l, r) THEN [fault |-> TRUE, val |-> 0]
           ELSE [fault |-> FALSE, val |-> l * r]
      [] op.kind = "Divide" ->
           IF r = 0 \/ (l = I32_MIN /\ r = -1) THEN [fault |-> TRUE, val |-> 0]
           ELSE [fault |-> FALSE, val |-> TruncDiv(l, r)]
      [] op.kind = "Power" -> ExactPow(l, r)

\* The node `left op right` of the reference parse.
RefNode(left, op, right) ==
    IF ~right.ok THEN Reject(left.fault \/ right.fault)
    ELSE LET v == IF left.fault \/ right.fault THEN [fault |-> TRUE, val |-> 0]
                  ELSE ExactApply(op, left.val, right.val)
         IN  [ok |-> TRUE, fault |-> v.fault, val |-> v.val,
              from |-> left.from, next |-> right.next,
              spans |-> left.spans \cup right.spans \cup {<<left.from, right.next - 1>>}]

KindAt(ts, i) == IF i <= Len(ts) THEN ts[i].kind ELSE "End"

RECURSIVE RefSum(_, _)
RECURSIVE RefSumRest(_, _)
RECURSIVE RefProduct(_, _)
RECURSIVE RefProductRest(_, _)
RECURSIVE RefPower(_, _)
RECURSIVE RefAtom(_, _)

RefAtom(ts, i) ==
    CASE KindAt(ts, i) = "Number" ->
           [ok |-> TRUE, fault |-> FALSE, val |-> ts[i].val,
            from |-> i, next |-> i + 1, spans |-> {<<i, i>>}]
      [] KindAt(ts, i) = "LeftParen" ->
           LET e == RefSum(ts, i + 1)
           IN  IF ~e.ok THEN e
               ELSE IF KindAt(ts, e.next) # "RightParen" THEN Reject(e.fault)
               ELSE [ok |-> TRUE, fault |-> e.fault, val |-> e.val,
                     from |-> i, next |-> e.next + 1,
                     spans |-> e.spans \cup {<<i, e.next>>}]
      [] OTHER -> Reject(FALSE)

RefPower(ts, i) ==
    LET a == RefAtom(ts, i)
    IN  IF ~a.ok THEN a
        ELSE IF KindAt(ts, a.next) = "Power"
        THEN RefNode(a, ts[a.next], RefPower(ts, a.next + 1))
        ELSE a

RefProductRest(ts, left) ==
    IF ~left.ok THEN left
    ELSE IF KindAt(ts, left.next) \in {"Mutiply", "Divide"}
    THEN RefProductRest(ts, RefNode(left, ts[left.next], RefPower(ts, left.next + 1)))
    ELSE left

RefProduct(ts, i) == RefProductRest(ts, RefPower(ts, i))

RefSumRest(ts, left) ==
    IF ~left.ok THEN left
    ELSE IF KindAt(ts, left.next) \in {"Plus", "Minus"}
    THEN RefSumRest(ts, RefNode(left, ts[left.next], RefProduct(ts, left.next + 1)))
    ELSE left

RefSum(ts, i) == RefSumRest(ts, RefProduct(ts, i))

RefParse(ts) ==
    LET e == RefSum(ts, 1)
    IN  IF e.ok /\ e.next # Len(ts) + 1 THEN Reject(e.fault) ELSE e

\* ts with the sub-expression ts[a..b] wrapped in one more pair of parentheses.
Wrap(ts, a, b) ==
    SubSeq(ts, 1, a - 1) \o <<LeftParen>> \o SubSeq(ts, a, b) \o <<RightParen>>
        \o SubSeq(ts, b + 1, Len(ts))

(***************************************************************************)
(* Claims checked on token sequences (SpecTok)                             *)
(***************************************************************************)

\* C1: a well-formed expression whose reference evaluation meets no arithmetic
\* fault evaluates to the value of the reference parse (+ - at level 1, * /
\* at level 2, ^ at level 3, all grouped to the left but ^), under either
\* build profile; the documented examples give 14, 20, 2, 512 and 145.
C1_ReferenceValue ==
    Evaluated =>
        /\ (toks # <<>> /\ RefParse(toks).ok /\ ~RefParse(toks).fault)
               => result = Ok(RefParse(toks).val)
        /\ src = ExPrecedence => result = Ok(14)
        /\ src = ExParens => result = Ok(20)
        /\ src = ExLeftAssoc => result = Ok(2)
        /\ src = ExRightAssoc => result = Ok(512)
        /\ src = ExMain => result = Ok(145)

C1_Witness ==
    /\ Evaluated
    /\ toks = <<Number(2), Power, Number(3), Power, Number(2)>>
    /\ result = Ok(512)

\* C3 as stated: a token sequence that is not derivable from the grammar
\* always yields a ParseError.
C3_AlwaysParseError ==
    (Evaluated /\ toks # <<>> /\ ~RefParse(toks).ok) => result.kind = "Err"

\* C3 amended: a token sequence that is not derivable from the grammar never
\* yields Ok; it yields a ParseError unless an arithmetic fault in the part
\* already evaluated panics first; the documented malformed texts yield a
\* ParseError.
C3_NeverOk ==
    Evaluated =>
        /\ (toks # <<>> /\ ~RefParse(toks).ok)
               => \/ result.kind = "Err"
                  \/ result.kind = "Panic" /\ RefParse(toks).fault
        /\ src \in MalformedExamples => result.kind = "Err"

C3_Witness ==
    /\ Evaluated
    /\ toks = <<LeftParen, Number(2), Plus, Number(3)>>
    /\ result = Err("Unexpected character")

\* C5: wrapping any sub-expression of the parse of a valid expression (the
\* whole expression and single numbers included) in one more pair of
\* parentheses leaves the outcome of evaluation unchanged.
C5_ParenRoundTrip ==
    (Evaluated /\ toks # <<>> /\ RefParse(toks).ok) =>
        \A sp \in RefParse(toks).spans :
            Eval(PrintTokens(Wrap(toks, sp[1], sp[2])), overflow_checks) = result

C5_Witness ==
    /\ Evaluated
    /\ toks = <<Number(2), Plus, Number(3), Mutiply, Number(2)>>
    /\ <<3, 5>> \in RefParse(toks).spans
    /\ result = Ok(8)

(***************************************************************************)
(* Claims checked on texts (SpecText)                                      *)
(***************************************************************************)
\* A character outside the lexical alphabet: no whitespace, no decimal digit,
\* none of + - * / ^ ( ).
Foreign(c) ==
    /\ ~IsWhitespace(c)
    /\ ~IsAsciiDigit(c)
    /\ c \notin {"+", "-", "*", "/", "^", "(", ")"}

HasForeign(s) == \E i \in 1..Len(s) : Foreign(s[i])

\* C2: a text that holds a character outside the lexical alphabet, wherever
\* it stands, always evaluates to a ParseError.
C2_ForeignCharacterIsError ==
    (Evaluated /\ HasForeign(src)) => result.kind = "Err"

InsertAt(s, i, c) == SubSeq(s, 1, i) \o <<c>> \o SubSeq(s, i + 1, Len(s))

RemoveAt(s, i) == SubSeq(s, 1, i - 1) \o SubSeq(s, i + 1, Len(s))

NumericAt(s, i) == i >= 1 /\ i <= Len(s) /\ IsNumeric(s[i])

\* C4 as stated: removing a whitespace character never changes the outcome.
C4_RemovalInvariant ==
    Evaluated =>
        \A i \in 1..Len(src) :
            IsWhitespace(src[i]) => Eval(RemoveAt(src, i), overflow_checks) = result

\* C4 amended: inserting a whitespace character anywhere but between two
\* numeric characters, and removing one that does not stand alone between two
\* numeric characters, never changes the outcome; "1+2" and " 1 + 2 " give 3.
C4_WhitespaceInvariant ==
    Evaluated =>
        /\ \A i \in 0..Len(src) :
               ~(NumericAt(src, i) /\ NumericAt(src, i + 1))
                   => Eval(InsertAt(src, i, " "), overflow_checks) = result
        /\ \A i \in 1..Len(src) :
               (IsWhitespace(src[i]) /\ ~(NumericAt(src, i - 1) /\ NumericAt(src, i + 1)))
                   => Eval(RemoveAt(src, i), overflow_checks) = result
        /\ src \in {ExTight, ExSpaced} => result = Ok(3)

C4_Witness ==
    /\ Evaluated
    /\ src = <<"1", " ", "+", "2">>
    /\ result = Ok(3)
    /\ Eval(RemoveAt(src, 2), overflow_checks) = Ok(3)
    /\ Eval(InsertAt(src, 3, " "), overflow_checks) = Ok(3)

(***************************************************************************)
(* Claims checked on the Expr's life cycle (Spec)                          *)
(***************************************************************************)

\* C9: whatever was done to the Expr before, reset() followed by evaluation()
\* returns what evaluation() returns on a newly constructed Expr for the same
\* source.
C9_ResetThenEvaluation ==
    (Len(hist) >= 2 /\ hist[Len(hist) - 1] = "reset" /\ hist[Len(hist)] = "evaluation")
        => result = Eval(src, overflow_checks)

\* main: the tokens are drained, then reset() and evaluation() give 145.
C9_Witness ==
    /\ hist = <<"next", "reset", "evaluation">>
    /\ src = ExMain
    /\ result = Ok(145)

(***************************************************************************)
(* Claims checked on one binary operation (SpecBinary)                     *)
(***************************************************************************)
\* q is l / r truncated: l = q * r + rem, |rem| < |r|, rem zero or signed as l.
Truncated(l, r, q) ==
    /\ ~MulOverflows(q, r)
    /\ ~SubOverflows(l, q * r)
    /\ LET rem == l - q * r
       IN  /\ rem # I32_MIN
           /\ IF r > 0 THEN rem < r /\ -rem < r ELSE rem > r /\ -rem > r
           /\ rem = 0 \/ (rem > 0) = (l > 0)

\* C6 as stated: l / r yields the quotient truncated toward zero for every
\* pair of operands with a non-zero divisor.
C6_EveryNonZeroDivisor ==
    (Evaluated /\ arg_op = "/" /\ arg_r # 0) =>
        (result.kind = "Ok" /\ Truncated(arg_l, arg_r, result.val))

\* C6 amended: l / r yields the quotient truncated toward zero (l = q * r + rem,
\* |rem| < |r|, rem zero or of the sign of l) for every pair of operands with a
\* non-zero divisor other than i32::MIN / -1, which panics.
C6_TruncatesTowardZero ==
    (Evaluated /\ arg_op = "/" /\ arg_r # 0) =>
        IF arg_l = I32_MIN /\ arg_r = -1 THEN result.kind = "Panic"
        ELSE result.kind = "Ok" /\ Truncated(arg_l, arg_r, result.val)

C6_Witness ==
    /\ Evaluated
    /\ arg_op = "/"
    /\ arg_l = -7
    /\ arg_r = 2
    /\ src = <<"(", "0", " ", "-", " ", "7", ")", " ", "/", " ", "2">>
    /\ result = Ok(-3)

\* C7: l ^ r with a negative exponent r always ends the evaluation in a
\* panic, never in Ok and never in a ParseError.
C7_NegativeExponentPanics ==
    (Evaluated /\ arg_op = "^" /\ arg_r < 0) => result.kind = "Panic"

(***************************************************************************)
(* Claims checked on the stepwise run (SpecStep)                           *)
(***************************************************************************)

\* Along the chain of active calls the remaining input strictly decreases
\* from one call of a function to the next call of the same function; each
\* pass of the loop starts with less input than the pass before; a
\* Tokenizer::next that yields a token advances the cursor.
C8_Decreases ==
    /\ \A i, j \in DOMAIN stack :
           (i < j /\ stack[i].fn = stack[j].fn) => stack[j].rem0 < stack[i].rem0
    /\ (At("compute_expression", "loop") /\ Top.mark # -1)
           => Remaining(pos, peeked) < Top.mark
    /\ \A p \in 0..Len(src) :
           LET n == TokenizerNext(src, p)
           IN  n.pos >= p /\ (n.tok # None => n.pos > p)

\* C8: evaluation always halts, the remaining input decreasing as stated
\* along every chain of recursive calls and loop passes.
C8_Halts == []C8_Decreases /\ <>Evaluated

C8_Witness ==
    /\ src = ExMain
    /\ \E i, j \in DOMAIN stack :
           /\ i < j
           /\ stack[i].fn = "compute_expression"
           /\ stack[j].fn = "compute_expression"
    /\ At("compute_expression", "loop")
    /\ Top.mark # -1

\* C10: every call of compute_expression has min_prec in 1..3, compute is
\* applied to + - * / ^ only, and "Unknown expression" is never returned.
C10_NoUnknownExpression ==
    /\ \A i \in DOMAIN stack :
           /\ stack[i].fn = "compute_expression" => stack[i].min_prec \in 1..3
           /\ stack[i].pc = "after_rhs"
                  => stack[i].token.kind \in {"Plus", "Minus", "Mutiply", "Divide", "Power"}
    /\ ret.msg # "Unknown expression"
    /\ result.msg # "Unknown expression"

\* A parenthesis has stopped the loop of a call with min_prec = 3: it waits in
\* the lookahead slot while the right operand of ^ is returned.
C10_Witness ==
    /\ At("compute_expression", "after_rhs")
    /\ Top.token = Power
    /\ ret.kind = "Ok"
    /\ peeked \in {LeftParen, RightParen}

====
